---- MODULE Spec2Model ----
(***************************************************************************)
(* Model of the rule `require-deprecation-date`                            *)
(* (packages/plugin/src/rules/require-deprecation-date.ts).                *)
(*                                                                         *)
(* The state is one `@deprecated` directive node of a parsed schema, the   *)
(* rule options, the wall clock, the JavaScript engine's Date.parse        *)
(* flavour and what the last run of the visitor handed to context.report   *)
(* (or that it threw).                                                     *)
(*                                                                         *)
(* JavaScript strings are sequences of one-character strings, so that the  *)
(* regular expressions, String.prototype.split and padStart are computed   *)
(* character by character.  Argument names and option names are never      *)
(* taken apart and are plain strings.                                      *)
(***************************************************************************)
EXTENDS Integers, Sequences, FiniteSets

VARIABLES options, node, now, engine, reports, thrown, visited, sampled

vars == <<options, node, now, engine, reports, thrown, visited, sampled>>

(***************************************************************************)
(* Bounds of the model.                                                    *)
(***************************************************************************)
\* longest argument list of the directive
MaxArgs == 2
\* number of clock steps after the initial instant
MaxTicks == 3

(***************************************************************************)
(* Characters and strings.                                                 *)
(***************************************************************************)
Digits == <<"0", "1", "2", "3", "4", "5", "6", "7", "8", "9">>

IsDigit(c) == \E i \in 1..Len(Digits) : Digits[i] = c

DigitValue(c) == (CHOOSE i \in 1..Len(Digits) : Digits[i] = c) - 1

AllDigits(s, from, to) == \A i \in from..to : IsDigit(s[i])

RECURSIVE DigitsToNat(_)
DigitsToNat(s) ==
  IF Len(s) = 0 THEN 0
  ELSE 10 * DigitsToNat(SubSeq(s, 1, Len(s) - 1)) + DigitValue(s[Len(s)])

RECURSIVE NatToDigits(_)
NatToDigits(n) ==
  IF n < 10 THEN <<Digits[n + 1]>>
  ELSE NatToDigits(n \div 10) \o <<Digits[(n % 10) + 1]>>

\* n written with at least w digits, zero filled (input construction only)
RECURSIVE ZeroFill(_, _)
ZeroFill(s, w) == IF Len(s) >= w THEN s ELSE ZeroFill(<<"0">> \o s, w)

(***************************************************************************)
(* String.prototype.split(separator) for a one-character separator: the    *)
(* pieces between the occurrences of the separator (always at least one).  *)
(***************************************************************************)
RECURSIVE SplitFrom(_, _, _, _)
SplitFrom(s, sep, i, piece) ==
  IF i > Len(s) THEN <<piece>>
  ELSE IF s[i] = sep THEN <<piece>> \o SplitFrom(s, sep, i + 1, <<>>)
  ELSE SplitFrom(s, sep, i + 1, Append(piece, s[i]))

Split(s, sep) == SplitFrom(s, sep, 1, <<>>)

\* String.prototype.padStart(targetLength, "0")
RECURSIVE padStart(_, _)
padStart(s, targetLength) ==
  IF Len(s) >= targetLength THEN s ELSE padStart(<<"0">> \o s, targetLength)

(***************************************************************************)
(* JavaScript values.  `undefined` is Undefined; a defined value carries   *)
(* its type.  Strings keep their characters in str, numbers their integer  *)
(* part in num and their fraction digits in str, arrays their elements in  *)
(* elems.                                                                  *)
(***************************************************************************)
Undefined == [type |-> "undefined", str |-> <<>>, num |-> 0, elems |-> <<>>]

JsString(s) == [type |-> "string", str |-> s, num |-> 0, elems |-> <<>>]

JsNumber(n, frac) == [type |-> "number", str |-> frac, num |-> n, elems |-> <<>>]

JsBoolean(b) == [type |-> "boolean", str |-> <<>>, num |-> IF b THEN 1 ELSE 0, elems |-> <<>>]

JsNull == [type |-> "null", str |-> <<>>, num |-> 0, elems |-> <<>>]

JsArray(es) == [type |-> "array", str |-> <<>>, num |-> 0, elems |-> es]

JsObject == [type |-> "object", str |-> <<>>, num |-> 0, elems |-> <<>>]

\* the digits of a fraction without its trailing zeros
RECURSIVE StripTrailingZeros(_)
StripTrailingZeros(s) ==
  IF Len(s) > 0 /\ s[Len(s)] = "0" THEN StripTrailingZeros(SubSeq(s, 1, Len(s) - 1))
  ELSE s

(***************************************************************************)
(* valueFromNode (estree-converter): a literal value node as a native      *)
(* value.  String literals give their text, Int and Float literals a       *)
(* number, lists an array of the converted elements, objects an object.    *)
(***************************************************************************)
RECURSIVE valueFromNode(_)
valueFromNode(valueNode) ==
  CASE valueNode.kind = "StringValue" -> JsString(valueNode.value)
    [] valueNode.kind = "IntValue" -> JsNumber(DigitsToNat(valueNode.value), <<>>)
    [] valueNode.kind = "FloatValue" ->
         LET parts == Split(valueNode.value, ".")
         IN  JsNumber(DigitsToNat(parts[1]), StripTrailingZeros(parts[2]))
    [] valueNode.kind = "BooleanValue" -> JsBoolean(valueNode.value = <<"t", "r", "u", "e">>)
    [] valueNode.kind = "NullValue" -> JsNull
    [] valueNode.kind = "ListValue" ->
         JsArray([i \in 1..Len(valueNode.values) |-> valueFromNode(valueNode.values[i])])
    [] valueNode.kind = "ObjectValue" -> JsObject

(***************************************************************************)
(* ToString, the coercion RegExp.prototype.test applies to its argument.   *)
(* An array is its elements joined by ",", null and undefined elements     *)
(* giving the empty string.                                                *)
(***************************************************************************)
RECURSIVE ToString(_)
RECURSIVE Join(_, _)
Join(es, i) ==
  IF i > Len(es) THEN <<>>
  ELSE (IF i > 1 THEN <<",">> ELSE <<>>)
       \o (IF es[i].type \in {"null", "undefined"} THEN <<>> ELSE ToString(es[i]))
       \o Join(es, i + 1)

ToString(v) ==
  CASE v.type = "string" -> v.str
    [] v.type = "number" ->
         NatToDigits(v.num) \o (IF Len(v.str) = 0 THEN <<>> ELSE <<".">> \o v.str)
    [] v.type = "boolean" ->
         IF v.num = 1 THEN <<"t", "r", "u", "e">> ELSE <<"f", "a", "l", "s", "e">>
    [] v.type = "null" -> <<"n", "u", "l", "l">>
    [] v.type = "undefined" -> <<"u", "n", "d", "e", "f", "i", "n", "e", "d">>
    [] v.type = "array" -> Join(v.elems, 1)
    [] v.type = "object" ->
         <<"[", "o", "b", "j", "e", "c", "t", " ", "O", "b", "j", "e", "c", "t", "]">>

(***************************************************************************)
(* The two recognizers.                                                    *)
(*   DATE_REGEX1 = /^\d{2}\/\d{2}\/\d{4}$/                                 *)
(*   DATE_REGEX2 = /^\d{4}(?:\/\d{2}){2}$/                                 *)
(* RegExp.prototype.test(x) matches against ToString(x).                   *)
(***************************************************************************)
\* DATE_REGEX1 without its anchors, /\d{2}\/\d{2}\/\d{4}/: a match anywhere
DATE_REGEX1_Unanchored(s) ==
  \E k \in 0..(Len(s) - 10) :
    /\ AllDigits(s, k + 1, k + 2) /\ s[k + 3] = "/"
    /\ AllDigits(s, k + 4, k + 5) /\ s[k + 6] = "/"
    /\ AllDigits(s, k + 7, k + 10)

DATE_REGEX1(s) ==
  /\ Len(s) = 10
  /\ AllDigits(s, 1, 2) /\ s[3] = "/"
  /\ AllDigits(s, 4, 5) /\ s[6] = "/"
  /\ AllDigits(s, 7, 10)

DATE_REGEX2(s) ==
  /\ Len(s) = 10
  /\ AllDigits(s, 1, 4)
  /\ s[5] = "/" /\ AllDigits(s, 6, 7)
  /\ s[8] = "/" /\ AllDigits(s, 9, 10)

(***************************************************************************)
(* Time.  A time value (milliseconds since the epoch) is kept as the day   *)
(* number since 1970-01-01 and the milliseconds within that day, so that   *)
(* d * 86400000 + ms never has to be formed; NaN is the time value with    *)
(* nan set.                                                                *)
(***************************************************************************)
NaN == [nan |-> TRUE, day |-> 0, ms |-> 0]

TimeValue(d, m) == [nan |-> FALSE, day |-> d, ms |-> m]

\* a > b on time values (false when either is NaN)
GreaterThan(a, b) ==
  /\ ~a.nan /\ ~b.nan
  /\ \/ a.day > b.day
     \/ a.day = b.day /\ a.ms > b.ms

IsLeapYear(y) == (y % 4 = 0 /\ y % 100 # 0) \/ y % 400 = 0

DaysInMonth(y, m) ==
  IF m = 2 THEN (IF IsLeapYear(y) THEN 29 ELSE 28)
  ELSE IF m \in {4, 6, 9, 11} THEN 30 ELSE 31

\* leap years among the years 1 .. y-1
LeapsBefore(y) == ((y - 1) \div 4) - ((y - 1) \div 100) + ((y - 1) \div 400)

\* day number of 1 January of year y
DayFromYear(y) == 365 * (y - 1970) + LeapsBefore(y) - LeapsBefore(1970)

RECURSIVE DaysBeforeMonth(_, _)
DaysBeforeMonth(y, m) ==
  IF m <= 1 THEN 0 ELSE DaysBeforeMonth(y, m - 1) + DaysInMonth(y, m - 1)

\* MakeDay(year, month, date): a date beyond the month's end runs into the
\* following month
MakeDay(y, m, d) == DayFromYear(y) + DaysBeforeMonth(y, m) + d - 1

\* the date-only form of the date-time string format, YYYY-MM-DD
IsDateOnlyForm(s) ==
  /\ Len(s) = 10
  /\ AllDigits(s, 1, 4) /\ s[5] = "-"
  /\ AllDigits(s, 6, 7) /\ s[8] = "-"
  /\ AllDigits(s, 9, 10)

(***************************************************************************)
(* Date.parse on a string.  A string in the date-only form is midnight UTC *)
(* of that date; illegal element values make it not an instance of the     *)
(* format, and what then happens is left to the engine: the "strict"       *)
(* engine answers NaN for every date that does not exist, the "lenient"    *)
(* one (V8) only checks 1 <= month <= 12 and 1 <= day <= 31 and lets       *)
(* MakeDay run a day beyond the month's end into the next month.  Strings  *)
(* in no date form at all give NaN.                                        *)
(***************************************************************************)
DateParse(s, eng) ==
  IF ~IsDateOnlyForm(s) THEN NaN
  ELSE LET y == DigitsToNat(SubSeq(s, 1, 4))
           m == DigitsToNat(SubSeq(s, 6, 7))
           d == DigitsToNat(SubSeq(s, 9, 10))
           lastDay == IF eng = "lenient" THEN 31 ELSE DaysInMonth(y, m)
       IN  IF m >= 1 /\ m <= 12 /\ d >= 1 /\ d <= lastDay
           THEN TimeValue(MakeDay(y, m, d), 0)
           ELSE NaN

(***************************************************************************)
(* getNodeName (utils): the label of a member in a message, made of the    *)
(* member's kind, the name of the enclosing type and its own name.         *)
(***************************************************************************)
getNodeName(member) == <<member.kind, member.typeName, member.name.value>>

\* fixer.remove(nodeOrToken): the edit deleting the node's whole range
FixerRemove(n) == [op |-> "remove", range |-> n.range]

MESSAGE_REQUIRE_DATE == "MESSAGE_REQUIRE_DATE"
MESSAGE_INVALID_FORMAT == "MESSAGE_INVALID_FORMAT"
MESSAGE_INVALID_DATE == "MESSAGE_INVALID_DATE"
MESSAGE_CAN_BE_REMOVED == "MESSAGE_CAN_BE_REMOVED"

(***************************************************************************)
(* What one run of the visitor leaves behind: the descriptors handed to    *)
(* context.report in order, and whether the run ended by a TypeError.      *)
(***************************************************************************)
Returned(rs) == [reports |-> rs, thrown |-> FALSE]

Threw == [reports |-> <<>>, thrown |-> TRUE]

\* a descriptor: the node it is anchored at, the message, its data, its
\* suggestions (deletionDate is Undefined where the data has no such key)
Descriptor(anchor, messageId, nodeName, deletionDate, suggest) ==
  [node |-> anchor.range, messageId |-> messageId, nodeName |-> nodeName,
   deletionDate |-> deletionDate, suggest |-> suggest]

\* the argument name with the option left unread
ArgName_OptionUnread(opts) == "deletionDate"

\* context.options[0]?.argumentName || 'deletionDate'
ArgName(opts) ==
  IF Len(opts) >= 1 /\ "argumentName" \in DOMAIN opts[1] /\ opts[1].argumentName # ""
  THEN opts[1].argumentName
  ELSE "deletionDate"

\* find(arg => arg.name.value), the comparison with argName forgotten
Find_AnyName(arguments, argName) == IF Len(arguments) >= 1 THEN 1 ELSE 0

\* node.arguments?.find(arg => arg.name.value === argName): the index of the
\* first such argument, 0 for undefined
Find(arguments, argName) ==
  IF \E i \in 1..Len(arguments) : arguments[i].name.value = argName
  THEN CHOOSE i \in 1..Len(arguments) :
         /\ arguments[i].name.value = argName
         /\ \A j \in 1..(i - 1) : arguments[j].name.value # argName
  ELSE 0

\* the i-th element of a destructured array, undefined beyond its end
Element(parts, i) == IF i <= Len(parts) THEN JsString(parts[i]) ELSE Undefined

(***************************************************************************)
(* let day, month, year;                                                   *)
(* if (isValidDate1) [day, month, year] = deletionDate.split('/');         *)
(* else if (isValidDate2) [year, month, day] = deletionDate.split('-');    *)
(***************************************************************************)
Components(s, isValidDate1, isValidDate2) ==
  IF isValidDate1
  THEN LET parts == Split(s, "/")
       IN  [day |-> Element(parts, 1), month |-> Element(parts, 2), year |-> Element(parts, 3)]
  ELSE IF isValidDate2
  THEN LET parts == Split(s, "-")
       IN  [year |-> Element(parts, 1), month |-> Element(parts, 2), day |-> Element(parts, 3)]
  ELSE [day |-> Undefined, month |-> Undefined, year |-> Undefined]

\* the string handed to Date.parse: `${year}-${month}-${day}`
Canonical(year, month, day) ==
  ToString(year) \o <<"-">> \o month \o <<"-">> \o day

\* the comparison the wrong way round, Date.now() < deletionDateInMS
CanRemove_Reversed(dateNow, deletionDateInMS) == GreaterThan(deletionDateInMS, dateNow)

\* const canRemove = Date.now() > deletionDateInMS
CanRemove(dateNow, deletionDateInMS) == GreaterThan(dateNow, deletionDateInMS)

\* the report of a member that can be removed, with its one suggestion
ReportCanBeRemoved(n) ==
  LET parent == n.parent
      nodeName == parent.name.value
  IN  Descriptor(parent.name, MESSAGE_CAN_BE_REMOVED, getNodeName(parent), Undefined,
                 << [desc |-> <<"Remove", nodeName>>, fix |-> FixerRemove(parent)] >>)

(***************************************************************************)
(* The visitor 'Directive[name.value=deprecated]'(node), run with the      *)
(* options opts while Date.now() answers dateNow, on the engine eng.       *)
(***************************************************************************)
DirectiveDeprecated(opts, n, dateNow, eng) ==
  LET argName == ArgName(opts)
      found == Find(n.arguments, argName)
  IN
  IF found = 0
  THEN Returned(<< Descriptor(n.name, MESSAGE_REQUIRE_DATE, getNodeName(n.parent),
                              Undefined, <<>>) >>)
  ELSE
  LET deletionDateNode == n.arguments[found]
      deletionDate == valueFromNode(deletionDateNode.value)
      isValidDate1 == DATE_REGEX1(ToString(deletionDate))
      isValidDate2 == DATE_REGEX2(ToString(deletionDate))
  IN
  IF ~isValidDate1 /\ ~isValidDate2
  THEN Returned(<< Descriptor(deletionDateNode.value, MESSAGE_INVALID_FORMAT,
                              getNodeName(n.parent), Undefined, <<>>) >>)
  \* deletionDate.split is not a function unless deletionDate is a string
  ELSE IF deletionDate.type # "string" THEN Threw
  ELSE
  LET c == Components(deletionDate.str, isValidDate1, isValidDate2)
      day == c.day
      month == c.month
      year == c.year
  IN
  \* day.padStart and month.padStart on undefined are TypeErrors
  IF day.type = "undefined" \/ month.type = "undefined" THEN Threw
  ELSE
  LET paddedDay == padStart(day.str, 2)
      paddedMonth == padStart(month.str, 2)
      deletionDateInMS == DateParse(Canonical(year, paddedMonth, paddedDay), eng)
  IN
  IF deletionDateInMS.nan
  THEN Returned(<< Descriptor(deletionDateNode.value, MESSAGE_INVALID_DATE,
                              getNodeName(n.parent), deletionDate, <<>>) >>)
  ELSE IF CanRemove(dateNow, deletionDateInMS)
  THEN Returned(<< ReportCanBeRemoved(n) >>)
  ELSE Returned(<<>>)

(***************************************************************************)
(* The inputs: rule options the schema admits, and directive nodes as the  *)
(* parser hands them over.                                                 *)
(***************************************************************************)
\* an options object without and with the property argumentName
NoProperties == [k \in {} |-> ""]

WithArgumentName(name) == [k \in {"argumentName"} |-> name]

\* schema: an array of at most one object whose only property is a string
OptionNames == {"", "deletionDate", "removeBy"}

Options == {<<>>, <<NoProperties>>} \cup {<<WithArgumentName(a)>> : a \in OptionNames}

ArgNames == {"deletionDate", "removeBy", "reason"}

Years == {2022, 2024}
Months == {2, 4, 12, 13}
Days == {29, 30, 31, 32}

Pad(n, w) == ZeroFill(NatToDigits(n), w)

\* the date d.m.y written in the layouts people use
Written(form, d, m, y) ==
  CASE form = "DD/MM/YYYY" -> Pad(d, 2) \o <<"/">> \o Pad(m, 2) \o <<"/">> \o Pad(y, 4)
    [] form = "YYYY/MM/DD" -> Pad(y, 4) \o <<"/">> \o Pad(m, 2) \o <<"/">> \o Pad(d, 2)
    [] form = "YYYY-MM-DD" -> Pad(y, 4) \o <<"-">> \o Pad(m, 2) \o <<"-">> \o Pad(d, 2)
    [] form = "DD-MM-YYYY" -> Pad(d, 2) \o <<"-">> \o Pad(m, 2) \o <<"-">> \o Pad(y, 4)
    [] form = "D/MM/YYYY" -> Pad(d, 1) \o <<"/">> \o Pad(m, 2) \o <<"/">> \o Pad(y, 4)
    [] form = " DD/MM/YYYY" -> <<" ">> \o Pad(d, 2) \o <<"/">> \o Pad(m, 2) \o <<"/">> \o Pad(y, 4)
    [] form = "DD/MM/YYYY " -> Pad(d, 2) \o <<"/">> \o Pad(m, 2) \o <<"/">> \o Pad(y, 4) \o <<" ">>
    [] form = "YYYY" -> Pad(y, 4)

Forms == {"DD/MM/YYYY", "YYYY/MM/DD", "YYYY-MM-DD"}

OddForms == {"DD-MM-YYYY", "D/MM/YYYY", " DD/MM/YYYY", "DD/MM/YYYY ", "YYYY"}

DateTexts ==
  {Written(f, d, m, y) : f \in Forms, d \in Days, m \in Months, y \in Years}
  \cup {Written(f, 1, 12, 2022) : f \in OddForms}
  \cup {<<>>}

\* value nodes; the range is set when the node is placed in a directive
StringValue(text) == [kind |-> "StringValue", value |-> text, values |-> <<>>, range |-> <<0, 0>>]

Literal(kind, text) == [kind |-> kind, value |-> text, values |-> <<>>, range |-> <<0, 0>>]

ListValue(vs) == [kind |-> "ListValue", value |-> <<>>, values |-> vs, range |-> <<0, 0>>]

NonStringValues ==
  { Literal("IntValue", <<"2", "0", "2", "2">>),
    Literal("FloatValue", <<"1", ".", "5", "0">>),
    Literal("BooleanValue", <<"t", "r", "u", "e">>),
    Literal("NullValue", <<>>),
    Literal("ObjectValue", <<>>),
    ListValue(<<>>),
    ListValue(<< Literal("IntValue", <<"2", "0", "2", "2">>) >>),
    ListValue(<< Literal("NullValue", <<>>) >>),
    ListValue(<< StringValue(Written("DD/MM/YYYY", 29, 12, 2022)) >>),
    ListValue(<< StringValue(Written("YYYY/MM/DD", 29, 12, 2022)) >>),
    ListValue(<< StringValue(Written("YYYY-MM-DD", 29, 12, 2022)) >>),
    ListValue(<< ListValue(<< StringValue(Written("DD/MM/YYYY", 31, 12, 2022)) >>) >>),
    ListValue(<< StringValue(Written("DD/MM/YYYY", 29, 12, 2022)),
                 StringValue(Written("DD/MM/YYYY", 29, 12, 2022)) >>) }

Values == {StringValue(t) : t \in DateTexts} \cup NonStringValues

\* the text of a reason argument
ReasonValue == StringValue(<<"U", "s", "e", " ", "f", "i", "r", "s", "t", "N", "a", "m", "e">>)

\* the members a directive hangs on: a field of a type, a value of an enum
Members ==
  { [kind |-> "field", typeName |-> "User",
     name |-> [value |-> "firstname", range |-> <<14, 23>>], start |-> 14],
    [kind |-> "enum value", typeName |-> "Color",
     name |-> [value |-> "RED", range |-> <<120, 123>>], start |-> 120] }

\* the directive with arguments named names (in this order) on member; the
\* arguments called reason carry the reason text, the others the value v
DirectiveNode(member, names, v) ==
  LET nameStart == member.name.range[2] + 10
      argStart(i) == nameStart + 40 * i
  IN  [ name |-> [value |-> "deprecated", range |-> <<nameStart, nameStart + 10>>],
        arguments |->
          [i \in 1..Len(names) |->
             [name |-> [value |-> names[i]],
              value |-> [(IF names[i] = "reason" THEN ReasonValue ELSE v)
                           EXCEPT !.range = <<argStart(i), argStart(i) + 20>>]]],
        parent |-> [kind |-> member.kind, typeName |-> member.typeName,
                    name |-> member.name,
                    range |-> <<member.start, argStart(Len(names) + 1)>>],
        range |-> <<nameStart - 1, argStart(Len(names) + 1)>> ]

RECURSIVE SeqsUpTo(_, _)
SeqsUpTo(S, n) ==
  IF n = 0 THEN {<<>>}
  ELSE LET shorter == SeqsUpTo(S, n - 1)
       IN  shorter \cup {Append(q, x) : q \in shorter, x \in S}

Nodes ==
  {DirectiveNode(mb, names, v) : mb \in Members, names \in SeqsUpTo(ArgNames, MaxArgs), v \in Values}

\* the instant the clock starts at: midnight UTC, 30 December 2022
StartOfClock == TimeValue(MakeDay(2022, 12, 30), 0)

Engines == {"strict", "lenient"}

(***************************************************************************)
(* The state machine.                                                      *)
(***************************************************************************)
Init ==
  /\ options \in Options
  /\ node \in Nodes
  /\ engine \in Engines
  /\ now = StartOfClock
  /\ reports = <<>>
  /\ thrown = FALSE
  /\ visited = FALSE
  /\ sampled = StartOfClock

\* the linter visits the directive: one run of the handler, which samples
\* the clock once
Visit ==
  LET run == DirectiveDeprecated(options, node, now, engine)
  IN  /\ reports' = run.reports
      /\ thrown' = run.thrown
      /\ visited' = TRUE
      /\ sampled' = now
      /\ UNCHANGED <<options, node, now, engine>>

\* how far the clock is from its start, in steps
ClockIndex(t) == 2 * (t.day - StartOfClock.day) + t.ms

\* time passes within the day (off midnight)
TickWithinDay ==
  /\ now.ms = 0
  /\ ClockIndex(now) < MaxTicks
  /\ now' = TimeValue(now.day, 1)
  /\ UNCHANGED <<options, node, engine, reports, thrown, visited, sampled>>

\* time passes to the next midnight
TickToMidnight ==
  /\ ClockIndex(TimeValue(now.day + 1, 0)) <= MaxTicks
  /\ now' = TimeValue(now.day + 1, 0)
  /\ UNCHANGED <<options, node, engine, reports, thrown, visited, sampled>>

Next == Visit \/ TickWithinDay \/ TickToMidnight

Spec == Init /\ [][Next]_vars

(***************************************************************************)
(* Vocabulary of the properties, stated without the rule's own operators.  *)
(***************************************************************************)
\* the argument name in force: the configured one, "deletionDate" by default
ConfiguredName ==
  IF Len(options) = 1 /\ DOMAIN options[1] = {"argumentName"} /\ options[1]["argumentName"] # ""
  THEN options[1]["argumentName"]
  ELSE "deletionDate"

HasDateArgument == \E i \in DOMAIN node.arguments : node.arguments[i].name.value = ConfiguredName

\* the argument under inspection: the first one with the name in force
DateArgument ==
  node.arguments[CHOOSE i \in DOMAIN node.arguments :
                   /\ node.arguments[i].name.value = ConfiguredName
                   /\ \A j \in DOMAIN node.arguments :
                        node.arguments[j].name.value = ConfiguredName => i <= j]

HasDateString == HasDateArgument /\ DateArgument.value.kind = "StringValue"

\* the raw text of the date argument (when it is a string literal)
Raw == DateArgument.value.value

DigitsAt(s, positions) == \A i \in positions : s[i] \in {Digits[k] : k \in DOMAIN Digits}

\* DD/MM/YYYY
LayoutA(s) ==
  Len(s) = 10 /\ s[3] = "/" /\ s[6] = "/" /\ DigitsAt(s, {1, 2, 4, 5, 7, 8, 9, 10})

\* YYYY<sep>MM<sep>DD
LayoutB(s, sep) ==
  Len(s) = 10 /\ s[5] = sep /\ s[8] = sep /\ DigitsAt(s, {1, 2, 3, 4, 6, 7, 9, 10})

Number(s, from, to) == DigitsToNat(SubSeq(s, from, to))

\* year, month and day a string in one of the layouts spells
Spelled(s) ==
  IF LayoutA(s)
  THEN [year |-> Number(s, 7, 10), month |-> Number(s, 4, 5), day |-> Number(s, 1, 2)]
  ELSE [year |-> Number(s, 1, 4), month |-> Number(s, 6, 7), day |-> Number(s, 9, 10)]

\* the calendar has such a day
IsRealDate(t) ==
  /\ t.month \in 1..12
  /\ t.day >= 1
  /\ t.day <= (CASE t.month = 2 ->
                      (IF t.year % 400 = 0 \/ (t.year % 4 = 0 /\ t.year % 100 # 0) THEN 29 ELSE 28)
                 [] t.month \in {4, 6, 9, 11} -> 30
                 [] OTHER -> 31)

\* midnight UTC of a real date
Midnight(t) == TimeValue(MakeDay(t.year, t.month, t.day), 0)

Before(a, b) == a.day < b.day \/ (a.day = b.day /\ a.ms < b.ms)

\* the label of the member in messages
Label == <<node.parent.kind, node.parent.typeName, node.parent.name.value>>

\* what the last visit did
Outcome ==
  IF thrown THEN "TypeError"
  ELSE IF Len(reports) = 0 THEN "none"
  ELSE IF Len(reports) = 1 THEN reports[1].messageId
  ELSE "several reports"

ReportedOnce(messageId) == ~thrown /\ Len(reports) = 1 /\ reports[1].messageId = messageId

ReportedNothing == ~thrown /\ Len(reports) = 0

\* exactly one CanBeRemoved at the member's name, with one suggestion that
\* deletes the member's full range
ReportedCanBeRemoved ==
  /\ ReportedOnce(MESSAGE_CAN_BE_REMOVED)
  /\ reports[1].node = node.parent.name.range
  /\ reports[1].nodeName = Label
  /\ Len(reports[1].suggest) = 1
  /\ reports[1].suggest[1].fix = [op |-> "remove", range |-> node.parent.range]

\* exactly one InvalidFormat at the value node, with no suggestion
ReportedInvalidFormat ==
  /\ ReportedOnce(MESSAGE_INVALID_FORMAT)
  /\ reports[1].node = DateArgument.value.range
  /\ reports[1].nodeName = Label
  /\ Len(reports[1].suggest) = 0

C1_Eligibility ==
  (visited /\ HasDateString /\ (LayoutA(Raw) \/ LayoutB(Raw, "/")) /\ IsRealDate(Spelled(Raw))) =>
    IF Before(Midnight(Spelled(Raw)), sampled) THEN ReportedCanBeRemoved ELSE ReportedNothing

(***************************************************************************)
(* C3.  Calendar validity: a visited directive whose date argument is a    *)
(* string in a recognized layout that spells a date the calendar does not  *)
(* have gets exactly one InvalidDate report, at the value node, carrying   *)
(* the raw string, and never CanBeRemoved.                                 *)
(***************************************************************************)
C3_CalendarValidity ==
  (visited /\ HasDateString /\ (LayoutA(Raw) \/ LayoutB(Raw, "/")) /\ ~IsRealDate(Spelled(Raw))) =>
    /\ ReportedOnce(MESSAGE_INVALID_DATE)
    /\ reports[1].node = DateArgument.value.range
    /\ reports[1].deletionDate.type = "string"
    /\ reports[1].deletionDate.str = Raw

(***************************************************************************)
(* C4.  Accepted formats: a visited directive whose date argument is a     *)
(* string written DD/MM/YYYY or YYYY-MM-DD (hyphens) that spells a real    *)
(* date gets no InvalidFormat report: it gets CanBeRemoved when the date   *)
(* is before the sampled time and no report otherwise.                     *)
(***************************************************************************)
C4_AcceptedFormats ==
  (visited /\ HasDateString /\ (LayoutA(Raw) \/ LayoutB(Raw, "-")) /\ IsRealDate(Spelled(Raw))) =>
    /\ Outcome # MESSAGE_INVALID_FORMAT
    /\ IF Before(Midnight(Spelled(Raw)), sampled)
       THEN ReportedOnce(MESSAGE_CAN_BE_REMOVED)
       ELSE ReportedNothing

(***************************************************************************)
(* C6.  No exception, at most one diagnostic: every visit returns without  *)
(* throwing, having called report at most once, with one of the four       *)
(* messages.                                                               *)
(***************************************************************************)
C6_NoException ==
  visited =>
    /\ ~thrown
    /\ Len(reports) <= 1
    /\ \A i \in DOMAIN reports :
         reports[i].messageId \in {MESSAGE_REQUIRE_DATE, MESSAGE_INVALID_FORMAT,
                                   MESSAGE_INVALID_DATE, MESSAGE_CAN_BE_REMOVED}

(***************************************************************************)
(* C7.  Configurability.  The argumentName the options give, if any.       *)
(***************************************************************************)
GivenName == IF Len(options) = 1 /\ DOMAIN options[1] = {"argumentName"}
             THEN <<options[1]["argumentName"]>> ELSE <<>>

HasArgumentNamed(name) == \E i \in DOMAIN node.arguments : node.arguments[i].name.value = name

\* the rule looks at the arguments called name and at no others: without
\* one it asks for a date, with one it goes on to judge its value
Inspects(name) ==
  visited => (HasArgumentNamed(name) <=> Outcome # MESSAGE_REQUIRE_DATE)

(***************************************************************************)
(* C7 as claimed: for every argumentName the schema admits other than      *)
(* "deletionDate" the rule inspects the argument of that name and ignores  *)
(* an argument called deletionDate; without the option it inspects         *)
(* deletionDate.                                                           *)
(***************************************************************************)
C7_AsClaimed ==
  IF Len(GivenName) = 1 THEN Inspects(GivenName[1]) ELSE Inspects("deletionDate")

(***************************************************************************)
(* C7 as amended: for every non-empty argumentName the rule inspects the   *)
(* argument of that name and ignores one called deletionDate; without the  *)
(* option, or with the empty string for it, it inspects deletionDate.      *)
(***************************************************************************)
C7_Configurability ==
  IF Len(GivenName) = 1 /\ GivenName[1] # ""
  THEN Inspects(GivenName[1])
  ELSE Inspects("deletionDate")

\* under argumentName "removeBy" a directive with only a well-formed
\* deletionDate has been visited and asked for a date
C7_Witness ==
  /\ visited
  /\ GivenName = <<"removeBy">>
  /\ Len(node.arguments) = 1 /\ node.arguments[1].name.value = "deletionDate"
  /\ node.arguments[1].value.kind = "StringValue"
  /\ LayoutA(node.arguments[1].value.value)
  /\ ReportedOnce(MESSAGE_REQUIRE_DATE)

(***************************************************************************)
(* C8.  Recognizer and splitter agree: a string a recognizer accepts is    *)
(* split by the rule into three defined components, the year (4 digits),   *)
(* month (2 digits) and day (2 digits) it spells, so that the string       *)
(* handed to the date parser is YYYY-MM-DD of those digits.                *)
(***************************************************************************)
C8_SplitterConsistent ==
  (HasDateString /\ (DATE_REGEX1(Raw) \/ DATE_REGEX2(Raw))) =>
    LET c == Components(Raw, DATE_REGEX1(Raw), DATE_REGEX2(Raw))
        t == Spelled(Raw)
    IN  /\ c.year.type = "string" /\ c.month.type = "string" /\ c.day.type = "string"
        /\ Len(c.year.str) = 4 /\ Len(c.month.str) = 2 /\ Len(c.day.str) = 2
        /\ Canonical(c.year, c.month.str, c.day.str)
             = Pad(t.year, 4) \o <<"-">> \o Pad(t.month, 2) \o <<"-">> \o Pad(t.day, 2)

(***************************************************************************)
(* C9.  Non-string values: a visited directive whose date argument is not  *)
(* a string literal gets exactly one InvalidFormat report at the value     *)
(* node; the visit does not throw and reports neither InvalidDate nor      *)
(* CanBeRemoved.                                                           *)
(***************************************************************************)
C9_NonStringValues ==
  (visited /\ HasDateArgument /\ DateArgument.value.kind # "StringValue") => ReportedInvalidFormat

(***************************************************************************)
(* C10.  Monotonicity in time: from one visit of a directive to the next,  *)
(* the clock never running backwards, a RequireDate, InvalidFormat or      *)
(* InvalidDate report is repeated unchanged, a CanBeRemoved report is      *)
(* repeated with the same delete range, and the only change there can be   *)
(* is from no report to CanBeRemoved.                                      *)
(***************************************************************************)
C10_Monotonic ==
  [][ (visited /\ visited') =>
        /\ ~Before(sampled', sampled)
        /\ Outcome \in {MESSAGE_REQUIRE_DATE, MESSAGE_INVALID_FORMAT, MESSAGE_INVALID_DATE}
             => reports' = reports /\ thrown' = thrown
        /\ Outcome = MESSAGE_CAN_BE_REMOVED
             => /\ Outcome' = MESSAGE_CAN_BE_REMOVED
                /\ reports'[1].suggest = reports[1].suggest
        /\ Outcome' # Outcome
             => Outcome = "none" /\ Outcome' = MESSAGE_CAN_BE_REMOVED ]_vars

\* a date that was not yet past when the clock started has been found past
\* by a later visit
C10_Witness ==
  /\ visited /\ HasDateString /\ LayoutA(Raw) /\ IsRealDate(Spelled(Raw))
  /\ ~Before(Midnight(Spelled(Raw)), StartOfClock)
  /\ Before(Midnight(Spelled(Raw)), sampled)
  /\ ReportedCanBeRemoved

====
